---- MODULE Spec2Model ----
(***************************************************************************)
(* BlockProcessor (src/chain/block.go): a confirmation table counting the  *)
(* occurrences of each block identifier per height, and the cursor         *)
(* maxHeight that is advanced when an identifier reaches 3 occurrences.    *)
(* Every goroutine running ProcessBlocks is a process; every atomic        *)
(* operation of the code (atomic.Load/Add/CompareAndSwap, sync.Map         *)
(* LoadOrStore) is one step.  The two plain (non-atomic) reads of shared   *)
(* memory, *currentCount at block.go:93 and p.maxHeight at block.go:112,   *)
(* are data races: they return any value the Go memory model allows.       *)
(***************************************************************************)
EXTENDS Integers, Sequences, FiniteSets, TLC

\* ------------------------------------------------------------- constants
\* const minAcceptedBlockCount = 3
minAcceptedBlockCount == 3

\* ---------------------------------------------------------------- bounds
\* ProcessBlocks calls over one run of the two goroutines, both together
MaxCalls == 4
\* ProcessBlocks calls of the single caller of the sequential runs
MaxSeqCalls == 6
\* callers of the single-identifier run (each makes one call)
NumCallers == 4
\* callers of the three-identifier run (each makes one call)
NumTripleCallers == 4
\* elements handed to ProcessBlocks in such a run, all callers together
MaxTripleWork == 9
\* fewest callers of the single-identifier run: one per occurrence needed
MinCallers == minAcceptedBlockCount
\* calls of the run that repeats one call
MaxRepeat == 4
\* arguments one caller goes through in a run, repeating each
MaxPhases == 3

\* the goroutines
Procs == 1..NumCallers
\* the two goroutines of the runs with any arguments
TwoProcs == {1, 2}

\* block identifiers; "" is the empty identifier
Ids == {"", "a", "b"}
\* the identifier sequences a call may carry
BlockSeqs ==
    {<<>>} \cup {<<x>> : x \in Ids} \cup {<<x, y>> : x, y \in Ids}
        \cup {<<"a", "b", "c">>, <<"a", "a", "a">>}
\* the start heights a call may carry
StartHeights == {0, 1, 2}
AllInputs == StartHeights \X BlockSeqs
\* the inputs of the runs of one caller making any calls
SeqSeqs == {<<>>, <<"">>, <<"a">>, <<"b">>, <<"a", "b">>, <<"a", "a">>}
SeqInputs == StartHeights \X SeqSeqs
\* the inputs of the runs of one caller going through several arguments
PhaseInputs ==
    {<<1, <<>>>>, <<1, <<"a">>>>, <<2, <<"a">>>>, <<1, <<"a", "a">>>>,
     <<2, <<"b">>>>}
\* the sequences all callers of a run pass at once
TripleSeqs == {<<"a", "b">>, <<"a", "b", "c">>}
\* the inputs of the concurrent runs
ConcInputs ==
    {<<1, <<"a">>>>, <<1, <<"a", "b">>>>, <<1, <<"a", "b", "c">>>>,
     <<2, <<"b">>>>}

\* ----------------------------------------------------------------- state
VARIABLES
    maxHeight,          \* BlockProcessor.maxHeight, the accepted-height cursor
    blockTracker,       \* BlockProcessor.blockTracker: height -> (id -> count)
    pc,                 \* where each goroutine stands in ProcessBlocks
    blocks,             \* the part of `blocks` the range loop has not reached
    blockHeight,        \* ProcessBlocks' blockHeight (processBlock's height)
    block,              \* the loop variable `block`
    currentMaxHeight,   \* ProcessBlocks' currentMaxHeight
    myCount,            \* the counter's value as this goroutine stored it
    mayRead,            \* values the plain read of p.maxHeight may return
    ret,                \* the value of the goroutine's last return
    callsLeft,          \* calls each goroutine may still make
    totalLeft,          \* calls all goroutines together may still make
    inputs,             \* the (startHeight, blocks) arguments calls draw from
    written,            \* heights a value-changing write has put in maxHeight
    processed,          \* (height, id) -> occurrences handed to processBlock
    phases              \* the caller's earlier arguments, with the calls made

vars == <<maxHeight, blockTracker, pc, blocks, blockHeight, block,
          currentMaxHeight, myCount, mayRead, ret, callsLeft, totalLeft,
          inputs, written, processed, phases>>

locals == <<blocks, blockHeight, block, currentMaxHeight, myCount, ret>>

\* ---------------------------------------------------------------- helpers
\* the count stored for (h, id); 0 when no counter exists
Count(h, id) ==
    IF h \in DOMAIN blockTracker /\ id \in DOMAIN blockTracker[h]
    THEN blockTracker[h][id]
    ELSE 0

\* the occurrences of (h, id) handed to processBlock so far
Processed(h, id) ==
    IF <<h, id>> \in DOMAIN processed THEN processed[<<h, id>>] ELSE 0

\* `processed` with one more occurrence of (h, id)
Recorded(h, id) ==
    [k \in DOMAIN processed \cup {<<h, id>>} |->
        IF k = <<h, id>> THEN Processed(h, id) + 1 ELSE processed[k]]

\* mutants of the threshold test: one occurrence early, one late
ReachedThresholdEarly(c) == c >= minAcceptedBlockCount - 1
ReachedThresholdStrict(c) == c > minAcceptedBlockCount

\* if *currentCount >= minAcceptedBlockCount
\* mutant of the threshold test: the count must be the threshold exactly
ReachedThresholdExact(c) == c = minAcceptedBlockCount

ReachedThreshold(c) == c >= minAcceptedBlockCount

\* mutant of the skip test: height 0 counts as open
HeightOpenGenesis(h, cur) == h > cur \/ h = 0

\* mutant of the skip test: a height equal to the cursor counts as open
HeightOpenInclusive(h, cur) == h >= cur

\* if blockHeight > currentMaxHeight
HeightOpen(h, cur) == h > cur

\* mutant of the successor test: the operands of the subtraction swapped
AbandonSwapped(cur, h) == cur > h \/ (cur - h) # 1

\* if curMaxHeight > height || (height-curMaxHeight) != 1 { return }
\* (|| short-circuits: the uint64 subtraction is evaluated only when
\* curMaxHeight <= height, so it never wraps)
Abandon(cur, h) == cur > h \/ (h - cur) # 1

\* the old value handed to CompareAndSwapUint64 is the plain read p.maxHeight
\* (block.go:112), not curMaxHeight: any value maxHeight has held since this
\* goroutine's atomic load, the latest included
CasOldValues(t) == mayRead[t]

\* mutant of the loop's step: blockHeight is not incremented
NextElementSameHeight(t) ==
    /\ blockHeight' = blockHeight
    /\ block' = [block EXCEPT ![t] = ""]
    /\ myCount' = [myCount EXCEPT ![t] = 0]

\* the loop's step to the next element: blockHeight++
NextElement(t) ==
    /\ blockHeight' = [blockHeight EXCEPT ![t] = @ + 1]
    /\ block' = [block EXCEPT ![t] = ""]
    /\ myCount' = [myCount EXCEPT ![t] = 0]

\* ------------------------------------------------------------------ init
\* NewBlockProcessor: maxHeight 0, empty blockTracker; no call running
InitTracker ==
    /\ maxHeight = 0
    /\ blockTracker = <<>>
    /\ pc = [t \in Procs |-> "idle"]
    /\ blocks = [t \in Procs |-> <<>>]
    /\ blockHeight = [t \in Procs |-> 0]
    /\ block = [t \in Procs |-> ""]
    /\ currentMaxHeight = [t \in Procs |-> 0]
    /\ myCount = [t \in Procs |-> 0]
    /\ mayRead = [t \in Procs |-> {}]
    /\ ret = [t \in Procs |-> 0]
    /\ written = {}
    /\ processed = <<>>
    /\ phases = <<>>

\* two concurrent callers, any arguments
Init ==
    /\ InitTracker
    /\ inputs = ConcInputs
    /\ callsLeft = [t \in Procs |-> IF t \in TwoProcs THEN MaxCalls ELSE 0]
    /\ totalLeft = MaxCalls

\* ---------------------------------------------------------------- actions
\* a goroutine calls ProcessBlocks(startHeight, blocks)
Call(t) ==
    /\ pc[t] = "idle"
    /\ callsLeft[t] > 0
    /\ totalLeft > 0
    /\ \E in \in inputs :
        /\ blockHeight' = [blockHeight EXCEPT ![t] = in[1]]
        /\ blocks' = [blocks EXCEPT ![t] = in[2]]
    /\ callsLeft' = [callsLeft EXCEPT ![t] = @ - 1]
    /\ totalLeft' = totalLeft - 1
    /\ pc' = [pc EXCEPT ![t] = "loop"]
    /\ UNCHANGED <<maxHeight, blockTracker, block, currentMaxHeight, myCount,
                   mayRead, ret, inputs, phases, processed, written>>

\* for _, block := range blocks; currentMaxHeight := atomic.LoadUint64(...);
\* blockHeight > currentMaxHeight: p.processBlock(blockHeight, block)
LoopProcess(t) ==
    /\ pc[t] = "loop"
    /\ blocks[t] # <<>>
    /\ HeightOpen(blockHeight[t], maxHeight)
    /\ currentMaxHeight' = [currentMaxHeight EXCEPT ![t] = maxHeight]
    /\ block' = [block EXCEPT ![t] = Head(blocks[t])]
    /\ blocks' = [blocks EXCEPT ![t] = Tail(@)]
    /\ pc' = [pc EXCEPT ![t] = "tracker"]
    /\ processed' = Recorded(blockHeight[t], Head(blocks[t]))
    /\ UNCHANGED <<maxHeight, blockTracker, blockHeight, myCount, mayRead,
                   ret, callsLeft, totalLeft, inputs, phases, written>>

\* the same with blockHeight <= currentMaxHeight: the element is skipped
LoopSkip(t) ==
    /\ pc[t] = "loop"
    /\ blocks[t] # <<>>
    /\ ~HeightOpen(blockHeight[t], maxHeight)
    /\ currentMaxHeight' = [currentMaxHeight EXCEPT ![t] = maxHeight]
    /\ blocks' = [blocks EXCEPT ![t] = Tail(@)]
    /\ NextElement(t)
    /\ UNCHANGED <<maxHeight, blockTracker, pc, mayRead, ret, callsLeft,
                   totalLeft, inputs, phases, processed, written>>

\* mutant of the return: the value loaded in the last iteration is returned
ReturnStale(t) ==
    /\ pc[t] = "loop"
    /\ blocks[t] = <<>>
    /\ ret' = [ret EXCEPT ![t] = currentMaxHeight[t]]
    /\ pc' = [pc EXCEPT ![t] = "idle"]
    /\ blockHeight' = [blockHeight EXCEPT ![t] = 0]
    /\ currentMaxHeight' = [currentMaxHeight EXCEPT ![t] = 0]
    /\ UNCHANGED <<maxHeight, blockTracker, blocks, block, myCount, mayRead,
                   callsLeft, totalLeft, inputs, phases, processed, written>>

\* mutant of the return: the last height the loop went through is returned
ReturnLastHeight(t) ==
    /\ pc[t] = "loop"
    /\ blocks[t] = <<>>
    /\ ret' = [ret EXCEPT ![t] =
                    IF blockHeight[t] > 0 THEN blockHeight[t] - 1 ELSE 0]
    /\ pc' = [pc EXCEPT ![t] = "idle"]
    /\ blockHeight' = [blockHeight EXCEPT ![t] = 0]
    /\ currentMaxHeight' = [currentMaxHeight EXCEPT ![t] = 0]
    /\ UNCHANGED <<maxHeight, blockTracker, blocks, block, myCount, mayRead,
                   callsLeft, totalLeft, inputs, phases, processed, written>>

\* return atomic.LoadUint64(&p.maxHeight)
Return(t) ==
    /\ pc[t] = "loop"
    /\ blocks[t] = <<>>
    /\ ret' = [ret EXCEPT ![t] = maxHeight]
    /\ pc' = [pc EXCEPT ![t] = "idle"]
    /\ blockHeight' = [blockHeight EXCEPT ![t] = 0]
    /\ currentMaxHeight' = [currentMaxHeight EXCEPT ![t] = 0]
    /\ UNCHANGED <<maxHeight, blockTracker, blocks, block, myCount, mayRead,
                   callsLeft, totalLeft, inputs, phases, processed, written>>

\* mutant of the height lookup: Store in place of LoadOrStore, a fresh empty
\* map replaces the one stored for the height
TrackerStore(t) ==
    /\ pc[t] = "tracker"
    /\ blockTracker' =
        [h \in DOMAIN blockTracker \cup {blockHeight[t]} |->
            IF h = blockHeight[t] THEN <<>> ELSE blockTracker[h]]
    /\ pc' = [pc EXCEPT ![t] = "counter"]
    /\ UNCHANGED <<maxHeight, locals, mayRead, callsLeft, totalLeft, inputs, phases,
                   processed, written>>

\* p.blockTracker.LoadOrStore(height, bc)
TrackerLoadOrStore(t) ==
    /\ pc[t] = "tracker"
    /\ blockTracker' =
        IF blockHeight[t] \in DOMAIN blockTracker
        THEN blockTracker
        ELSE [h \in DOMAIN blockTracker \cup {blockHeight[t]} |->
                IF h = blockHeight[t] THEN <<>> ELSE blockTracker[h]]
    /\ pc' = [pc EXCEPT ![t] = "counter"]
    /\ UNCHANGED <<maxHeight, locals, mayRead, callsLeft, totalLeft, inputs, phases,
                   processed,
                   written>>

\* bc.LoadOrStore(block, currentCount), not loaded: the counter starts at 1
CounterStore(t) ==
    /\ pc[t] = "counter"
    /\ block[t] \notin DOMAIN blockTracker[blockHeight[t]]
    /\ blockTracker' = [blockTracker EXCEPT ![blockHeight[t]] =
            [id \in DOMAIN @ \cup {block[t]} |->
                IF id = block[t] THEN 1 ELSE @[id]]]
    /\ myCount' = [myCount EXCEPT ![t] = 1]
    /\ pc' = [pc EXCEPT ![t] = "check"]
    /\ UNCHANGED <<maxHeight, blocks, blockHeight, block, currentMaxHeight,
                   ret, mayRead, callsLeft, totalLeft, inputs, phases, processed, written>>

\* mutant of the loaded case: Store in place of LoadOrStore, the caller's
\* fresh counter (1) replaces the existing one
CounterOverwrite(t) ==
    /\ pc[t] = "counter"
    /\ block[t] \in DOMAIN blockTracker[blockHeight[t]]
    /\ blockTracker' = [blockTracker EXCEPT ![blockHeight[t]][block[t]] = 1]
    /\ myCount' = [myCount EXCEPT ![t] = 1]
    /\ pc' = [pc EXCEPT ![t] = "check"]
    /\ UNCHANGED <<maxHeight, blocks, blockHeight, block, currentMaxHeight,
                   ret, mayRead, callsLeft, totalLeft, inputs, phases, processed, written>>

\* bc.LoadOrStore(block, currentCount), loaded: the existing counter is used
CounterLoad(t) ==
    /\ pc[t] = "counter"
    /\ block[t] \in DOMAIN blockTracker[blockHeight[t]]
    /\ pc' = [pc EXCEPT ![t] = "add"]
    /\ UNCHANGED <<maxHeight, blockTracker, locals, mayRead, callsLeft,
                   totalLeft, inputs, phases, processed, written>>

\* mutant of the increment: one counter per identifier, shared by all heights
CounterAddAllHeights(t) ==
    /\ pc[t] = "add"
    /\ blockTracker' =
        [h \in DOMAIN blockTracker |->
            [id \in DOMAIN blockTracker[h] |->
                IF id = block[t] THEN blockTracker[h][id] + 1
                ELSE blockTracker[h][id]]]
    /\ myCount' = [myCount EXCEPT ![t] = blockTracker[blockHeight[t]][block[t]] + 1]
    /\ pc' = [pc EXCEPT ![t] = "check"]
    /\ UNCHANGED <<maxHeight, blocks, blockHeight, block, currentMaxHeight,
                   ret, mayRead, callsLeft, totalLeft, inputs, phases,
                   processed, written>>

\* atomic.AddUint64(currentCount, 1)
CounterAdd(t) ==
    /\ pc[t] = "add"
    /\ blockTracker' = [blockTracker EXCEPT ![blockHeight[t]][block[t]] = @ + 1]
    /\ myCount' = [myCount EXCEPT ![t] = blockTracker[blockHeight[t]][block[t]] + 1]
    /\ pc' = [pc EXCEPT ![t] = "check"]
    /\ UNCHANGED <<maxHeight, blocks, blockHeight, block, currentMaxHeight,
                   ret, mayRead, callsLeft, totalLeft, inputs, phases, processed, written>>

\* mutant of the read of the counter: any value the counter ever had
CountReadsStale(t) == 0..Count(blockHeight[t], block[t])

\* the values the plain read *currentCount may return: the counter only grows,
\* and the read sees this goroutine's own store or any later one
CountReads(t) == myCount[t]..Count(blockHeight[t], block[t])

\* if *currentCount >= minAcceptedBlockCount { p.updateMaxHeight(height) }
CheckAccept(t) ==
    /\ pc[t] = "check"
    /\ \E c \in CountReads(t) : ReachedThreshold(c)
    /\ pc' = [pc EXCEPT ![t] = "load"]
    /\ UNCHANGED <<maxHeight, blockTracker, locals, mayRead, callsLeft,
                   totalLeft, inputs, phases, processed, written>>

\* the same, below the threshold: processBlock returns
CheckReject(t) ==
    /\ pc[t] = "check"
    /\ \E c \in CountReads(t) : ~ReachedThreshold(c)
    /\ pc' = [pc EXCEPT ![t] = "loop"]
    /\ NextElement(t)
    /\ UNCHANGED <<maxHeight, blockTracker, blocks, currentMaxHeight, ret,
                   mayRead, callsLeft, totalLeft, inputs, phases, processed, written>>

\* curMaxHeight := atomic.LoadUint64(&p.maxHeight); the check fails: return
UmhAbandon(t) ==
    /\ pc[t] = "load"
    /\ Abandon(maxHeight, blockHeight[t])
    /\ pc' = [pc EXCEPT ![t] = "loop"]
    /\ NextElement(t)
    /\ UNCHANGED <<maxHeight, blockTracker, blocks, currentMaxHeight, ret,
                   mayRead, callsLeft, totalLeft, inputs, phases, processed, written>>

\* the same, the check passes: on to the compare-and-swap
UmhProceed(t) ==
    /\ pc[t] = "load"
    /\ ~Abandon(maxHeight, blockHeight[t])
    /\ mayRead' = [mayRead EXCEPT ![t] = {maxHeight}]
    /\ pc' = [pc EXCEPT ![t] = "cas"]
    /\ UNCHANGED <<maxHeight, blockTracker, locals, callsLeft, totalLeft,
                   inputs, phases, processed, written>>

\* atomic.CompareAndSwapUint64(&p.maxHeight, p.maxHeight, height) succeeds
UmhCasOk(t) ==
    /\ pc[t] = "cas"
    /\ \E old \in CasOldValues(t) : maxHeight = old
    /\ maxHeight' = blockHeight[t]
    /\ written' = IF blockHeight[t] # maxHeight
                  THEN written \cup {blockHeight[t]} ELSE written
    /\ mayRead' = [u \in Procs |->
            IF u = t THEN {}
            ELSE IF pc[u] = "cas" THEN mayRead[u] \cup {blockHeight[t]}
            ELSE mayRead[u]]
    /\ pc' = [pc EXCEPT ![t] = "loop"]
    /\ NextElement(t)
    /\ UNCHANGED <<blockTracker, blocks, currentMaxHeight, ret, callsLeft,
                   totalLeft, inputs, phases, processed>>

\* mutant of the failing compare-and-swap: it may fail with the cursor unchanged
UmhCasFailSpurious(t) ==
    /\ pc[t] = "cas"
    /\ mayRead' = [mayRead EXCEPT ![t] = {}]
    /\ pc' = [pc EXCEPT ![t] = "load"]
    /\ UNCHANGED <<maxHeight, blockTracker, locals, callsLeft, totalLeft,
                   inputs, phases, processed, written>>

\* the compare-and-swap fails: the loop of updateMaxHeight goes round
UmhCasFail(t) ==
    /\ pc[t] = "cas"
    /\ \E old \in CasOldValues(t) : maxHeight # old
    /\ mayRead' = [mayRead EXCEPT ![t] = {}]
    /\ pc' = [pc EXCEPT ![t] = "load"]
    /\ UNCHANGED <<maxHeight, blockTracker, locals, callsLeft, totalLeft,
                   inputs, phases, processed, written>>

Step(t) ==
    \/ Call(t)
    \/ LoopProcess(t)
    \/ LoopSkip(t)
    \/ Return(t)
    \/ TrackerLoadOrStore(t)
    \/ CounterStore(t)
    \/ CounterLoad(t)
    \/ CounterAdd(t)
    \/ CheckAccept(t)
    \/ CheckReject(t)
    \/ UmhAbandon(t)
    \/ UmhProceed(t)
    \/ UmhCasOk(t)
    \/ UmhCasFail(t)

Next == \E t \in Procs : Step(t)

Spec == Init /\ [][Next]_vars

\* the steps of a call under way: a goroutine that can run is scheduled
Run(t) == pc[t] # "idle" /\ Step(t)

SpecFair == Init /\ [][Next]_vars /\ \A t \in Procs : WF_vars(Run(t))

\* ------------------------------------------------- runs of a single caller
\* one goroutine, one call after the other, any arguments
InitSeq ==
    /\ InitTracker
    /\ inputs = SeqInputs
    /\ callsLeft = [t \in Procs |-> IF t = 1 THEN MaxSeqCalls ELSE 0]
    /\ totalLeft = MaxSeqCalls

\* one goroutine repeating one call with the same arguments
InitRepeat ==
    /\ InitTracker
    /\ \E in \in AllInputs : inputs = {in}
    /\ callsLeft = [t \in Procs |-> IF t = 1 THEN MaxRepeat ELSE 0]
    /\ totalLeft = MaxRepeat

\* with a single caller the compare-and-swap of updateMaxHeight never fails
\* (SeqCasNeverFails below), so UmhCasFail is no step of these runs
StepSeq(t) ==
    \/ Call(t)
    \/ LoopProcess(t)
    \/ LoopSkip(t)
    \/ Return(t)
    \/ TrackerLoadOrStore(t)
    \/ CounterStore(t)
    \/ CounterLoad(t)
    \/ CounterAdd(t)
    \/ CheckAccept(t)
    \/ CheckReject(t)
    \/ UmhAbandon(t)
    \/ UmhProceed(t)
    \/ UmhCasOk(t)

NextSeq == \E t \in Procs : StepSeq(t)

SpecSeq == InitSeq /\ [][NextSeq]_vars
SpecSeqFull == InitSeq /\ [][Next]_vars
SpecRepeat == InitRepeat /\ [][NextSeq]_vars

\* N callers, each one call ProcessBlocks(1, [id]) with the same identifier
InitSingle ==
    /\ InitTracker
    /\ \E id \in Ids \ {""} : inputs = {<<1, <<id>>>>}
    /\ \E n \in MinCallers..NumCallers :
        /\ callsLeft = [t \in Procs |-> IF t <= n THEN 1 ELSE 0]
        /\ totalLeft = n

SpecSingle == InitSingle /\ [][Next]_vars

\* one goroutine repeating a call, then going on to other arguments
InitPhases ==
    /\ InitTracker
    /\ \E in \in PhaseInputs : inputs = {in}
    /\ callsLeft = [t \in Procs |-> IF t = 1 THEN MaxRepeat ELSE 0]
    /\ totalLeft = MaxRepeat

\* the caller, between two calls, goes on to its next arguments
NextPhase(t) ==
    /\ pc[t] = "idle"
    /\ callsLeft[t] < MaxRepeat
    /\ Len(phases) < MaxPhases - 1
    /\ \E in \in inputs, next \in PhaseInputs \ inputs :
        /\ phases' = Append(phases, <<in, MaxRepeat - callsLeft[t]>>)
        /\ inputs' = {next}
    /\ callsLeft' = [callsLeft EXCEPT ![t] = MaxRepeat]
    /\ totalLeft' = MaxRepeat
    /\ UNCHANGED <<maxHeight, blockTracker, pc, locals, mayRead, written,
                   processed>>

NextPhases == NextSeq \/ NextPhase(1)

SpecPhases == InitPhases /\ [][NextPhases]_vars

\* N callers, each one call ProcessBlocks(1, s) with the same sequence s, as
\* many callers and as long a sequence as MaxTripleWork elements allow
InitTriple ==
    /\ InitTracker
    /\ \E n \in MinCallers..NumTripleCallers, s \in TripleSeqs :
        /\ n * Len(s) <= MaxTripleWork
        /\ inputs = {<<1, s>>}
        /\ callsLeft = [t \in Procs |-> IF t <= n THEN 1 ELSE 0]
        /\ totalLeft = n

SpecTriple == InitTriple /\ [][Next]_vars

\* with one caller no compare-and-swap of updateMaxHeight can fail
SeqCasNeverFails == \A t \in Procs : ~ENABLED UmhCasFail(t)


\* ================================================================ claims
\* the highest value maxHeight has held
HighestHeld ==
    CHOOSE m \in written \cup {maxHeight} :
        \A h \in written \cup {maxHeight} : h <= m

\* the single caller has made and finished exactly n calls of the repeated run
RepeatedTimes(n) == pc[1] = "idle" /\ callsLeft[1] = MaxRepeat - n

\* every call of the run has been made and has returned
AllReturned == totalLeft = 0 /\ \A t \in Procs : pc[t] = "idle"

\* C1: under any interleaving of concurrent calls no step lowers the cursor.
C1_CursorNeverDecreases == [][maxHeight' >= maxHeight]_vars

\* C2: for every height h, a value-changing write sets the cursor to h at
\* most once over the whole run.
C2_HeightWrittenAtMostOnce ==
    [][maxHeight' # maxHeight => maxHeight' \notin written]_vars

\* C3: the compare-and-set of the advancement to h changes the cursor only
\* when the cursor holds exactly h-1 at that instant, and leaves it untouched
\* whenever it holds h or more.
C3_CasAgainstPredecessor ==
    [][\A t \in Procs :
        (pc[t] = "cas" /\ pc'[t] # "cas") =>
            /\ (maxHeight' # maxHeight => maxHeight = blockHeight[t] - 1)
            /\ (maxHeight >= blockHeight[t] => maxHeight' = maxHeight)]_vars

\* C4: every step that increases the cursor increases it by exactly 1, and an
\* advancement attempt for h made while the cursor is below h-1 leaves the
\* cursor unchanged.
C4_IncreaseByExactlyOne ==
    [][/\ (maxHeight' > maxHeight => maxHeight' = maxHeight + 1)
       /\ \A t \in Procs :
            (pc[t] = "load" /\ pc'[t] # "load"
                /\ maxHeight < blockHeight[t] - 1) =>
                    (maxHeight' = maxHeight /\ pc'[t] = "loop")]_vars

\* C5: in every reachable state, every height from 1 to the highest value the
\* cursor has held has an identifier with at least 3 occurrences.
C5_AcceptedHeightsHaveThree ==
    \A h \in 1..HighestHeld :
        /\ h \in DOMAIN blockTracker
        /\ \E id \in DOMAIN blockTracker[h] : blockTracker[h][id] >= 3

\* C5 witness: the cursor has reached height 2 while a goroutine is still
\* inside a call.
C5_Witness ==
    /\ HighestHeld >= 2
    /\ \E t \in Procs : pc[t] \notin {"idle", "loop"}

\* C6: an empty-string identifier is never counted, and ProcessBlocks(1, [""])
\* made three times on a fresh tracker leaves the accepted height at 0.
C6_EmptyIdNeverCounted ==
    /\ \A h \in DOMAIN blockTracker : "" \notin DOMAIN blockTracker[h]
    /\ (inputs = {<<1, <<"">>>>} /\ RepeatedTimes(3)) => maxHeight = 0

\* C7: with one caller, when the cursor was h-1 as the element at height h was
\* taken up and the count of its non-empty identifier is now 3 or more, the
\* cursor is exactly h when the processing of that element ends.
C7_ThresholdAdvancesToH ==
    [][\A t \in Procs :
        (/\ pc[t] \in {"check", "load", "cas"}
         /\ pc'[t] = "loop"
         /\ block[t] # ""
         /\ currentMaxHeight[t] = blockHeight[t] - 1
         /\ Count(blockHeight[t], block[t]) >= 3)
            => maxHeight' = blockHeight[t]]_vars

\* C7 witness: a non-empty identifier has been accepted at height 2, on its
\* fourth occurrence or later.
C7_Witness ==
    /\ maxHeight = 2
    /\ \E t \in Procs : pc[t] = "loop"
    /\ \E id \in DOMAIN blockTracker[2] :
        id # "" /\ blockTracker[2][id] >= 3

NonEmptyIds(s) == \A k \in 1..Len(s) : s[k] # ""

C10_ConcurrentSingleBlock == AllReturned => maxHeight = 1

\* C10 witness: all calls have returned, every caller having counted the
\* identifier (none skipped height 1), and the cursor is 1.
C10_Witness ==
    /\ AllReturned
    /\ maxHeight = 1
    /\ \E id \in Ids : Count(1, id) = NumCallers


C11_WitnessLateCaller ==
    /\ inputs = {<<1, <<"a", "b">>>>}
    /\ 2 \in written
    /\ maxHeight = 1
    /\ Count(2, "b") = 3
    /\ \E t \in Procs : pc[t] = "loop" /\ blockHeight[t] = 2 /\ blocks[t] # <<>>


\* the (height, id) pairs a counter or an occurrence exists for
Pairs ==
    DOMAIN processed \cup
        {<<h, id>> : h \in DOMAIN blockTracker,
                     id \in UNION {DOMAIN blockTracker[k] : k \in DOMAIN blockTracker}}

\* the goroutines that were handed (h, id) and have not yet counted it
InFlight(h, id) ==
    {t \in Procs : /\ pc[t] \in {"tracker", "counter", "add"}
                   /\ blockHeight[t] = h
                   /\ block[t] = id}

\* C12: under any interleaving no increment is lost and no count decreases:
\* every count equals the occurrences of its pair handed to processBlock less
\* those still on their way to the counter, so once all calls have returned it
\* equals the occurrences processed; and no step lowers a count.
C12_CountsAreExact ==
    /\ [](\A k \in Pairs :
            Count(k[1], k[2]) + Cardinality(InFlight(k[1], k[2]))
                = Processed(k[1], k[2]))
    /\ [][\A k \in Pairs : Count(k[1], k[2])' >= Count(k[1], k[2])]_vars

\* C12 witness: all calls have returned, both goroutines made calls, and a
\* counter holds 4, the occurrences of its pair that were processed.
C12_Witness ==
    /\ AllReturned
    /\ \E k \in Pairs : Count(k[1], k[2]) = 4 /\ Processed(k[1], k[2]) = 4
    /\ \A t \in TwoProcs : callsLeft[t] < MaxCalls


\* the elements goroutine t has not yet taken up all lie at or below the
\* cursor
RestClosed(t) ==
    pc[t] = "loop" /\ blockHeight[t] + Len(blocks[t]) - 1 <= maxHeight

\* C13: with one caller, a call all of whose pairs lie at heights at or below
\* the cursor changes neither the cursor nor any count, from its entry to its
\* return, whatever its identifiers and however often it is made.
C13_ClosedHeightsUntouched ==
    [][\A t \in Procs :
        RestClosed(t) =>
            /\ maxHeight' = maxHeight
            /\ blockTracker' = blockTracker
            /\ pc'[t] \in {"loop", "idle"}
            /\ (pc'[t] = "idle" => ret'[t] = maxHeight)
            /\ (pc'[t] = "loop" => RestClosed(t)')]_vars

\* C13 witness: a call ProcessBlocks(1, [x, y]) has been entered with the
\* cursor at 2 and has skipped its first element.
C13_Witness ==
    /\ maxHeight = 2
    /\ pc[1] = "loop"
    /\ blockHeight[1] = 2
    /\ Len(blocks[1]) = 1
    /\ currentMaxHeight[1] = 2


\* the caller made n calls with argument `in` and then went on
Phase(in, n) == <<in, n>>

\* C14: counters are keyed by (height, identifier): a step changes the count
\* of no pair but the one its goroutine is processing, which it raises by 1;
\* the same identifier at two heights of one call is counted once at each;
\* and after height 1 is accepted via "a" by three ProcessBlocks(1, ["a"]),
\* three ProcessBlocks(2, ["a"]) advance the cursor to 2.
C14_CountersPerHeight ==
    /\ [][\A k \in Pairs' :
            Count(k[1], k[2])' # Count(k[1], k[2]) =>
                \E t \in Procs :
                    /\ pc[t] \in {"counter", "add"}
                    /\ pc'[t] = "check"
                    /\ k = <<blockHeight[t], block[t]>>
                    /\ Count(k[1], k[2])' = Count(k[1], k[2]) + 1]_vars
    /\ []((phases = <<>> /\ inputs = {<<1, <<"a", "a">>>>} /\ RepeatedTimes(2))
            => (Count(1, "a") = 2 /\ Count(2, "a") = 2 /\ maxHeight = 0))
    /\ []((/\ phases = <<Phase(<<1, <<"a">>>>, 3)>>
           /\ inputs = {<<2, <<"a">>>>})
            => /\ Count(1, "a") = 3
               /\ (RepeatedTimes(0) => maxHeight = 1 /\ Count(2, "a") = 0)
               /\ (RepeatedTimes(2) => maxHeight = 1 /\ Count(2, "a") = 2)
               /\ (RepeatedTimes(3) => maxHeight = 2 /\ ret[1] = 2))

\* C14 witness: height 1 was accepted via "a", and the third
\* ProcessBlocks(2, ["a"]) has returned 2.
C14_Witness ==
    /\ phases = <<Phase(<<1, <<"a">>>>, 3)>>
    /\ inputs = {<<2, <<"a">>>>}
    /\ RepeatedTimes(3)
    /\ maxHeight = 2
    /\ Count(1, "a") = 3
    /\ Count(2, "a") = 3


\* C15: with one call at a time, the value a call returns is the cursor at
\* the end of that call and is no less than the value the call before it
\* returned.
C15_SequentialReturnsMonotone ==
    /\ [](pc[1] = "idle" => ret[1] = maxHeight)
    /\ [][(pc[1] = "loop" /\ pc'[1] = "idle") =>
            /\ ret'[1] = maxHeight
            /\ ret'[1] >= ret[1]]_vars

\* C15 witness: the last of the calls has returned 2, the cursor it leaves.
C15_Witness ==
    /\ pc[1] = "idle"
    /\ callsLeft[1] = 0
    /\ ret[1] = 2
    /\ maxHeight = 2


\* C16: with finitely many concurrent calls, under weak fairness of each
\* caller's steps every call under way eventually returns; the loop of
\* updateMaxHeight is left at the first load that does not find height - 1.
C16_EveryCallReturns ==
    /\ \A t \in Procs : (pc[t] # "idle") ~> (pc[t] = "idle")
    /\ [][\A t \in Procs :
            (pc[t] = "load" /\ maxHeight + 1 # blockHeight[t]
                /\ pc'[t] # pc[t]) => pc'[t] = "loop"]_vars

\* C16 witness: goroutine 1 is at its compare-and-swap and another caller
\* has changed the cursor since goroutine 1 loaded it, so the swap can fail.
C16_Witness ==
    /\ pc[1] = "cas"
    /\ \E old \in mayRead[1] : old # maxHeight
    /\ pc[2] # "idle"


\* C17: a fresh BlockProcessor has cursor 0 and an empty table, and a
\* ProcessBlocks call with an empty sequence changes neither the cursor nor
\* the table and returns the cursor.
C17_FreshAndEmptyCall ==
    /\ []((phases = <<>> /\ callsLeft[1] = MaxRepeat)
            => (maxHeight = 0 /\ blockTracker = <<>>))
    /\ [][(inputs = {<<1, <<>>>>} /\ inputs' = inputs) =>
            /\ maxHeight' = maxHeight
            /\ blockTracker' = blockTracker
            /\ (pc[1] = "loop" => (pc'[1] = "idle" /\ ret'[1] = maxHeight))]_vars

\* C17 witness: after height 1 was accepted, a call with an empty sequence
\* has returned the cursor, 1, and the table holds what it held.
C17_Witness ==
    /\ phases = <<Phase(<<1, <<"a">>>>, 3)>>
    /\ inputs = {<<1, <<>>>>}
    /\ RepeatedTimes(1)
    /\ ret[1] = 1
    /\ maxHeight = 1
    /\ Count(1, "a") = 3


\* C18: the cursor is changed to h only by a goroutine processing an
\* occurrence at height h.  An identifier that gathered 3 occurrences at
\* height 2 while the cursor was 0 is not accepted when the cursor reaches 1;
\* it is accepted when one more occurrence of it at height 2 is processed,
\* its count then being 4.
C18_AcceptedOnlyWhileProcessing ==
    /\ [][maxHeight' # maxHeight =>
            \E t \in Procs :
                /\ pc[t] = "cas"
                /\ pc'[t] = "loop"
                /\ blockHeight[t] = maxHeight'
                /\ Count(blockHeight[t], block[t]) >= minAcceptedBlockCount]_vars
    /\ []((/\ phases = <<Phase(<<2, <<"b">>>>, 3), Phase(<<1, <<"a">>>>, 3)>>
           /\ inputs = {<<2, <<"b">>>>})
            => /\ Count(2, "b") >= 3
               /\ (RepeatedTimes(0) => maxHeight = 1 /\ Count(2, "b") = 3)
               /\ (RepeatedTimes(1) => maxHeight = 2 /\ Count(2, "b") = 4))

\* C18 witness: "b" had 3 occurrences at height 2 before height 1 was
\* accepted, and a fourth occurrence, processed with the cursor at 1, has
\* moved the cursor to 2.
C18_Witness ==
    /\ phases = <<Phase(<<2, <<"b">>>>, 3), Phase(<<1, <<"a">>>>, 3)>>
    /\ inputs = {<<2, <<"b">>>>}
    /\ RepeatedTimes(1)
    /\ Count(2, "b") = 4
    /\ maxHeight = 2
    /\ ret[1] = 2


\* C19: under any interleaving, a goroutine whose own store or increment left
\* the counter of (h, id) at 3 or more calls updateMaxHeight(h) before it
\* goes on to its next element, whatever the later plain read of the counter
\* returns.
C19_ThresholdReacherAttempts ==
    [][\A t \in Procs :
        (pc[t] = "check" /\ ReachedThreshold(myCount[t]) /\ pc'[t] # "check")
            => /\ pc'[t] = "load"
               /\ blockHeight'[t] = blockHeight[t]
               /\ blocks'[t] = blocks[t]]_vars

\* C19 witness: goroutine 1 raised the counter to 3, goroutine 2 raised it
\* again before goroutine 1 read it back, and goroutine 1 is in
\* updateMaxHeight.
C19_Witness ==
    /\ pc[1] = "load"
    /\ myCount[1] = 3
    /\ pc[2] = "check"
    /\ blockHeight[2] = blockHeight[1]
    /\ block[2] = block[1]
    /\ myCount[2] = 4
    /\ Count(blockHeight[1], block[1]) = 4


====
